---- MODULE Spec2Model ----
(***************************************************************************)
(* A model of src/astro_opt.ts: the asset-optimisation pipeline that       *)
(* backfills ./public_dev into ./public and then watches it.               *)
(*                                                                         *)
(* Strings are sequences of one-character strings, so that the path        *)
(* arithmetic of the source (extname, toLowerCase, lastIndexOf, replace,   *)
(* basename, join, split) is computed the way the source computes it.      *)
(* JavaScript positions are 0-based with -1 for "not found"; here they are *)
(* 1-based with 0 for "not found".                                         *)
(***************************************************************************)
EXTENDS Integers, Sequences, FiniteSets, TLC

(***************************************************************************)
(* String primitives (String.prototype.* and path.* of Node, posix).       *)
(***************************************************************************)
sep == "/"

UpperChars == <<"A","B","C","D","E","F","G","H","I","J","K","L","M",
                "N","O","P","Q","R","S","T","U","V","W","X","Y","Z">>
LowerChars == <<"a","b","c","d","e","f","g","h","i","j","k","l","m",
                "n","o","p","q","r","s","t","u","v","w","x","y","z">>

LowerChar(c) ==
    IF \E i \in 1..Len(UpperChars) : UpperChars[i] = c
    THEN LowerChars[CHOOSE i \in 1..Len(UpperChars) : UpperChars[i] = c]
    ELSE c

\* String.prototype.toLowerCase
toLowerCase(s) == [i \in 1..Len(s) |-> LowerChar(s[i])]

\* t occurs in s at position i
OccursAt(s, t, i) ==
    /\ i >= 1
    /\ i + Len(t) - 1 <= Len(s)
    /\ \A k \in 1..Len(t) : s[i + k - 1] = t[k]

\* String.prototype.indexOf (0 when absent)
indexOf(s, t) ==
    IF \E i \in 1..Len(s) : OccursAt(s, t, i)
    THEN CHOOSE i \in 1..Len(s) :
            OccursAt(s, t, i) /\ \A j \in 1..(i - 1) : ~OccursAt(s, t, j)
    ELSE 0

\* String.prototype.lastIndexOf (0 when absent)
lastIndexOf(s, t) ==
    IF \E i \in 1..Len(s) : OccursAt(s, t, i)
    THEN CHOOSE i \in 1..Len(s) :
            OccursAt(s, t, i) /\ \A j \in (i + 1)..Len(s) : ~OccursAt(s, t, j)
    ELSE 0

\* String.prototype.includes
includes(s, t) == indexOf(s, t) # 0

\* String.prototype.replace with a string pattern: the first occurrence only
replace(s, t, r) ==
    LET i == indexOf(s, t) IN
    IF i = 0 THEN s
    ELSE SubSeq(s, 1, i - 1) \o r \o SubSeq(s, i + Len(t), Len(s))

\* s.substring(0, i) for the 1-based position i of a separator: what precedes it
substringBefore(s, i) == SubSeq(s, 1, i - 1)

\* s.substring(n): what follows the first n characters
substringFrom(s, n) == SubSeq(s, n + 1, Len(s))

\* s.split(sep).length
splitLength(s) == Cardinality({i \in 1..Len(s) : s[i] = sep}) + 1

\* the last path segment: what follows the last separator
LastSegment(p) == SubSeq(p, lastIndexOf(p, <<sep>>) + 1, Len(p))

\* path.extname: from the last dot of the last segment, unless the segment has
\* no dot, starts with its only dot, or is ".."
extname(p) ==
    LET base == LastSegment(p)
        d    == lastIndexOf(base, <<".">>)
    IN  IF d = 0 \/ d = 1 \/ base = <<".", ".">> THEN <<>>
        ELSE SubSeq(base, d, Len(base))

\* the last Len(e) characters of s are e, compared character by character
EndsWith(s, e) == Len(e) <= Len(s) /\ SubSeq(s, Len(s) - Len(e) + 1, Len(s)) = e

\* path.basename(p, ext): the last segment, with ext cut off its end when it
\* ends in exactly ext (character codes are compared, so case matters) and is
\* longer than ext
basename(p, ext) ==
    LET base == LastSegment(p) IN
    IF Len(ext) > 0 /\ Len(ext) < Len(base) /\ EndsWith(base, ext)
    THEN SubSeq(base, 1, Len(base) - Len(ext))
    ELSE base

\* path.normalize on paths without "." and ".." segments: runs of separators
\* collapse to one
RECURSIVE normalize(_)
normalize(p) ==
    IF Len(p) < 2 THEN p
    ELSE IF p[1] = sep /\ p[2] = sep THEN normalize(Tail(p))
    ELSE <<p[1]>> \o normalize(Tail(p))

\* path.join(a, b)
join(a, b) == normalize(a \o <<sep>> \o b)

(***************************************************************************)
(* Configuration (lines 10-16).                                            *)
(***************************************************************************)
imageExtensions == { <<".","p","n","g">>, <<".","j","p","g">>, <<".","g","i","f">> }
audioExtensions == { <<".","m","p","3">>, <<".","m","4","a">>, <<".","w","a","v">>,
                     <<".","f","l","a","c">>, <<".","o","p","u","s">>,
                     <<".","a","a","c">> }
videoExtensions == { <<".","m","p","4">>, <<".","m","o","v">> }
fontExtensions  == { <<".","t","t","f">>, <<".","w","o","f","f","2">> }
svgExtension    == <<".","s","v","g">>

\* path.resolve('./'): the working directory the process is started in
cwd == <<"/","w">>
publicDevName == <<"/","p","u","b","l","i","c","_","d","e","v">>
publicName    == <<"/","p","u","b","l","i","c">>
watchDir == cwd \o publicDevName


(***************************************************************************)
(* Classification (lines 21-24, 32-33, 81, 124, 140, 150, 178-194).        *)
(***************************************************************************)
\* the membership test of lines 23 and 33
MatchesKnownExtension(ext) ==
    Len(ext) > 0 /\ ( ext \in imageExtensions \/ ext \in audioExtensions
                      \/ ext \in videoExtensions \/ ext \in fontExtensions )

\* the predicate handed to chokidar as `ignored`: TRUE suppresses the path
ignored(filePath) == MatchesKnownExtension(toLowerCase(extname(filePath)))

\* the filter of the backfill pass over one readdir entry
BackfillMatches(entry) == MatchesKnownExtension(toLowerCase(extname(entry)))

\* the if / else-if chain of optimise
Category(ext) ==
    IF ext \in imageExtensions THEN "image"
    ELSE IF ext = svgExtension THEN "svg"
    ELSE IF ext \in audioExtensions THEN "audio"
    ELSE IF ext \in videoExtensions THEN "video"
    ELSE IF ext \in fontExtensions
         THEN IF ext = <<".","t","t","f">> THEN "ttf"
              ELSE IF ext = <<".","w","o","f","f","2">> THEN "woff2"
              ELSE "none"
    ELSE "none"

(***************************************************************************)
(* Path mapping (lines 61, 85-86, 131, 142, 159-168, 183, 195).            *)
(***************************************************************************)
\* the initial value of outputFilePath
mapOutputPath(filePath, ext) ==
    join( replace( substringBefore(filePath, lastIndexOf(filePath, <<sep>>)),
                   publicDevName, publicName ) \o <<sep>>,
          basename(filePath, ext) )

\* the directory handed to the first fs.mkdir
outputDirOf(outputFilePath) ==
    substringBefore(outputFilePath, lastIndexOf(outputFilePath, <<sep>>))

\* the raster format with the depth counted one segment deeper
imageFormatBelowWatchDir(filePath) ==
    IF splitLength(substringFrom(filePath, Len(cwd))) - 1 = 3
    THEN <<"p","n","g">> ELSE <<"a","v","i","f">>

\* the raster format
imageFormat(filePath) ==
    IF splitLength(substringFrom(filePath, Len(cwd))) - 1 = 2
    THEN <<"p","n","g">> ELSE <<"a","v","i","f">>

\* the extension each strategist appends to the mapped path
targetSuffix(filePath, category) ==
    CASE category = "image" -> <<".">> \o imageFormat(filePath)
      [] category = "svg"   -> <<".","s","v","g">>
      [] category = "audio" -> <<".","a","a","c">>
      [] category = "video" -> <<".","m","p","4">>
      [] category = "ttf"   -> <<".","w","o","f","f","2">>
      [] category = "woff2" -> <<".","w","o","f","f","2">>
      [] OTHER              -> <<>>

\* the path a job for filePath writes its output to
targetPath(filePath) ==
    LET ext == toLowerCase(extname(filePath)) IN
    mapOutputPath(filePath, ext) \o targetSuffix(filePath, Category(ext))

(***************************************************************************)
(* The video strategist's encoder choice (lines 154-169).                  *)
(***************************************************************************)
av1_nvenc  == <<"a","v","1","_","n","v","e","n","c">>
av1_qsv    == <<"a","v","1","_","q","s","v">>
av1_amf    == <<"a","v","1","_","a","m","f">>
libaom_av1 == <<"l","i","b","a","o","m","-","a","v","1">>

\* the choice with the vendor-B test ahead of the vendor-A test
selectEncoderQsvFirst(encoders) ==
    IF includes(encoders, av1_qsv) THEN av1_qsv
    ELSE IF includes(encoders, av1_nvenc) THEN av1_nvenc
    ELSE IF includes(encoders, av1_amf) THEN av1_amf
    ELSE libaom_av1

selectEncoder(encoders) ==
    IF includes(encoders, av1_nvenc) THEN av1_nvenc
    ELSE IF includes(encoders, av1_qsv) THEN av1_qsv
    ELSE IF includes(encoders, av1_amf) THEN av1_amf
    ELSE libaom_av1

(***************************************************************************)
(* The reporter (lines 68-77).  A size is <<>> while undefined and <<n>>   *)
(* once a stat has returned n bytes.                                       *)
(***************************************************************************)
\* JavaScript truthiness of a `number | undefined`
truthy(size) == size # <<>> /\ size[1] # 0

\* n/d rounded to the nearest integer, halves away from zero (toFixed)
roundDiv(n, d) ==
    LET a == IF n < 0 THEN -n ELSE n
        q == (2 * a + d) \div (2 * d)
    IN  IF n < 0 THEN -q ELSE q

\* getDif: the marker, or the percentage in thousandths with its word and colour
getDif(beforeSize, afterSize) ==
    IF truthy(beforeSize) /\ truthy(afterSize)
    THEN LET b == beforeSize[1]
             a == afterSize[1]
         IN  [ marker |-> FALSE,
               milli  |-> roundDiv((b - a) * 100000, b),
               word   |-> IF b - a > 0 THEN "reduced"
                          ELSE IF b - a < 0 THEN "gained" ELSE "",
               colour |-> IF b - a > 0 THEN "green"
                          ELSE IF b - a < 0 THEN "red" ELSE "" ]
    ELSE [ marker |-> TRUE, milli |-> 0, word |-> "", colour |-> "" ]


(***************************************************************************)
(* The raster strategist's resize decision (lines 91-98).  A dimension the *)
(* metadata does not give is 0, which is as falsy as undefined.            *)
(***************************************************************************)
\* the pixel ceiling of lines 93-94
resizeCeiling == 1440

\* resizeOptions = {}
noResize == [dim |-> "none", px |-> 0]

\* the decision with the comparison of line 94 turned round
resizeOptionsForSmaller(width, height) ==
    IF width # 0 /\ height # 0 /\ (width > resizeCeiling \/ height > resizeCeiling)
    THEN IF width < height THEN [dim |-> "width", px |-> resizeCeiling]
                           ELSE [dim |-> "height", px |-> resizeCeiling]
    ELSE noResize

\* lines 91-96
resizeOptionsFor(width, height) ==
    IF width # 0 /\ height # 0 /\ (width > resizeCeiling \/ height > resizeCeiling)
    THEN IF width > height THEN [dim |-> "width", px |-> resizeCeiling]
                           ELSE [dim |-> "height", px |-> resizeCeiling]
    ELSE noResize

\* what sharp's resize makes of a width x height image: the named dimension
\* becomes px and the other follows in proportion, rounded
resized(width, height, options) ==
    CASE options.dim = "width"  ->
            [width |-> options.px, height |-> roundDiv(height * options.px, width)]
      [] options.dim = "height" ->
            [width |-> roundDiv(width * options.px, height), height |-> options.px]
      [] OTHER -> [width |-> width, height |-> height]

(***************************************************************************)
(* State.                                                                  *)
(***************************************************************************)
VARIABLES
    \* one handleFileChange call followed through optimise
    filePath,        \* the path handed to handleFileChange
    ext,             \* path.extname(filePath).toLowerCase()
    pc,              \* the await the call is suspended at
    outputFilePath,  \* the local of optimise (line 61, reassigned at line 86)
    beforeSize,      \* <<>> while undefined
    afterSize,       \* <<>> while undefined
    hasAlpha,        \* metadata.hasAlpha || false
    metadata,        \* metadata.width and metadata.height, 0 when absent
    resizeOptions,   \* the options handed to sharp's resize
    encoders,        \* stdout of `ffmpeg -encoders`
    ffmpegCommand,   \* the encoder named after -c:v in the chosen command
    copyInFlight,    \* the un-awaited fs.copyFile of line 195 has not settled
    escaped,         \* a rejection left handleFileChange
    log,             \* what console.log / console.error have printed
    faults,          \* the steps of this call that rejected or threw
    wrote,           \* what this call's write put at its target: "no", "partial", "full"
    listed,          \* the encoder names the probe's listing consists of
    \* the output tree
    outFiles,        \* the files that exist under ./public
    outDirs,         \* the directories that exist under ./public
    \* the dispatcher
    tree,            \* what fs.readdir(watchDir, {recursive}) resolves to
    readdirDone,     \* the readdir callback has run
    handlersAttached,\* the .then of line 38 has run (Live)
    jobs,            \* the handleFileChange calls the dispatcher has started
    liveEvents,      \* filesystem changes the watcher has seen since Live began
    suppressed,      \* the paths whose change the ignore predicate suppressed
    deleted,         \* the paths handleFileDeletion has been called with
    watcherErrors,   \* the 'error' events the watcher has emitted
    crashed          \* an 'error' event found no listener: the process is gone

imageVars == << hasAlpha, metadata, resizeOptions >>
jobVars  == << filePath, ext, pc, outputFilePath, beforeSize, afterSize, imageVars,
               encoders, ffmpegCommand, copyInFlight, escaped, log, faults, wrote,
               listed >>
fsVars   == << outFiles, outDirs >>
watchVars == << deleted, watcherErrors, crashed >>
dispVars == << tree, readdirDone, handlersAttached, jobs, liveEvents, suppressed,
               watchVars >>
vars     == << jobVars, fsVars, dispVars >>

(***************************************************************************)
(* Inputs.                                                                 *)
(***************************************************************************)
\* the largest byte size fs.stat reports
MaxSize == 3

\* entries under ./public_dev, relative to it, as readdir names them
RelTtf    == <<"x",".","t","t","f">>
RelWoff2  == <<"x",".","w","o","f","f","2">>
RelMp3    == <<"a","/","x",".","m","p","3">>
RelWav    == <<"a","/","x",".","w","a","v">>
RelIcon   == <<"a","/","i","c","o","n",".","p","n","g">>
RelPhoto  == <<"a","/","b","/","p","h","o","t","o",".","p","n","g">>
RelUpper  == <<"P","H","O","T","O",".","P","N","G">>
RelSvg    == <<"l","o","g","o",".","s","v","g">>
RelMp4    == <<"c","l","i","p",".","m","p","4">>
RelTxt    == <<"n","o","t","e","s",".","t","x","t">>
RelReadme == <<"R","E","A","D","M","E">>
RelDir    == <<"a">>

\* path.join(path.resolve('./public_dev'), entry)
Abs(entry) == join(watchDir, entry)

JobPaths == { Abs(e) : e \in { RelTtf, RelWoff2, RelMp3, RelIcon, RelPhoto, RelUpper,
                               RelSvg, RelMp4, RelTxt, RelReadme } }

\* the widths and heights the metadata probe reports (0: not reported)
Dimensions == {0, 720, 1440, 1441, 2880}

\* lines of `ffmpeg -encoders` the probe may print, in the order it prints them
EncoderLines == << <<"h","2","6","4","_","n","v","e","n","c">>,
                   av1_amf, libaom_av1, av1_qsv, av1_nvenc >>

\* the stdout made of the lines whose positions are in keep
RECURSIVE Listing(_, _)
Listing(keep, i) ==
    IF i > Len(EncoderLines) THEN <<>>
    ELSE (IF i \in keep THEN <<" ">> \o EncoderLines[i] \o <<"\n">> ELSE <<>>)
         \o Listing(keep, i + 1)

\* d and every directory above it
Ancestors(d) ==
    { substringBefore(d, i) : i \in { k \in 2..Len(d) : d[k] = sep } } \cup {d}

Entry(kind) == [kind |-> kind, dif |-> <<>>, before |-> <<>>, after |-> <<>>]
Optimised(b, a) ==
    [kind |-> "optimised", dif |-> <<getDif(b, a)>>, before |-> b, after |-> a]

\* the category of the call in progress
Cat == Category(ext)

\* the path the strategist in progress writes: outputFilePath already carries
\* the format in the image branch, the others append their extension
writeTarget ==
    IF Cat = "image" THEN outputFilePath
    ELSE outputFilePath \o targetSuffix(filePath, Cat)


(***************************************************************************)
(* One handleFileChange call (lines 47-54) through optimise (lines 60-206),*)
(* one action per await.  An awaited call either resolves or rejects.      *)
(***************************************************************************)
StaleTargets == { targetPath(p) : p \in JobPaths }
StaleMapped  == { mapOutputPath(p, toLowerCase(extname(p))) : p \in JobPaths }
MirrorDirs   == UNION { Ancestors(outputDirOf(t)) : t \in StaleTargets }

InitJob ==
    /\ filePath = <<>> /\ ext = <<>> /\ pc = "idle" /\ outputFilePath = <<>>
    /\ beforeSize = <<>> /\ afterSize = <<>> /\ hasAlpha = FALSE
    /\ metadata = [width |-> 0, height |-> 0] /\ resizeOptions = noResize
    /\ encoders = <<>> /\ ffmpegCommand = <<>>
    /\ copyInFlight = FALSE /\ escaped = FALSE
    /\ log = <<>> /\ faults = {} /\ wrote = "no" /\ listed = {}

\* the output tree a run starts from: empty, or left by earlier runs
InitFs ==
    /\ outFiles \in { {}, StaleTargets, StaleTargets \cup StaleMapped }
    /\ outDirs \in { {}, MirrorDirs }
    /\ outFiles # {} => outDirs = MirrorDirs

Init ==
    /\ InitJob /\ InitFs
    /\ tree = <<>> /\ readdirDone = TRUE /\ handlersAttached = TRUE
    /\ jobs = <<>> /\ liveEvents = 0 /\ suppressed = {}
    /\ deleted = {} /\ watcherErrors = 0 /\ crashed = FALSE

\* lines 47-48, 50, 61-64: the call runs to the first await of optimise
HandleFileChange ==
    /\ pc = "idle"
    /\ \E p \in JobPaths :
          /\ filePath' = p
          /\ ext' = toLowerCase(extname(p))
          /\ outputFilePath' = mapOutputPath(p, toLowerCase(extname(p)))
    /\ pc' = "mkdir"
    /\ UNCHANGED << beforeSize, afterSize, imageVars, encoders, ffmpegCommand,
                    copyInFlight, escaped, log, faults, wrote, listed, fsVars, dispVars >>

\* line 64: fs.mkdir(parent, {recursive}).catch(() => {})
MkdirOutput ==
    /\ pc = "mkdir"
    /\ \E ok \in BOOLEAN :
          IF ok
          THEN /\ outDirs' = outDirs \cup Ancestors(outputDirOf(outputFilePath))
               /\ faults' = faults
          ELSE /\ outDirs' = outDirs
               /\ faults' = faults \cup {"mkdir"}
    /\ pc' = "unlink"
    /\ UNCHANGED << filePath, ext, outputFilePath, beforeSize, afterSize, imageVars,
                    encoders, ffmpegCommand, copyInFlight, escaped, log, wrote,
                    listed, outFiles, dispVars >>

\* line 65: fs.unlink(outputFilePath).catch(() => {}): the file is removed,
\* or there is none (ENOENT), or the removal rejects for another reason; the
\* .catch swallows both rejections
UnlinkStale ==
    /\ pc = "unlink"
    /\ \/ /\ outputFilePath \in outFiles
          /\ outFiles' = outFiles \ {outputFilePath}
          /\ faults' = faults
       \/ /\ outputFilePath \notin outFiles
          /\ UNCHANGED << outFiles, faults >>
       \/ /\ outputFilePath \in outFiles
          /\ outFiles' = outFiles
          /\ faults' = faults \cup {"unlink"}
    /\ pc' = "mkcache"
    /\ UNCHANGED << filePath, ext, outputFilePath, beforeSize, afterSize, imageVars,
                    encoders, ffmpegCommand, copyInFlight, escaped, log,
                    wrote, listed, outDirs, dispVars >>

\* lines 51-53: the catch of handleFileChange
handleFileChangeCatchMissing ==
    /\ escaped' = TRUE
    /\ log' = log
handleFileChangeCatch ==
    /\ escaped' = FALSE
    /\ log' = Append(log, Entry("errOptimizing"))

\* lines 81-86, 124-126, 140-143, 150-154, 178-182, 194-195: the branch taken
\* once the cache directory exists, up to its first await
Dispatch ==
    /\ log' = IF Cat = "none" THEN log ELSE Append(log, Entry("queueing"))
    /\ outputFilePath' = IF Cat = "image"
                         THEN outputFilePath \o <<".">> \o imageFormat(filePath)
                         ELSE outputFilePath
    /\ pc' = CASE Cat = "image" -> "metadata"
               [] Cat \in {"svg", "ttf"} -> "read"
               [] Cat = "audio" -> "write"
               [] Cat = "video" -> "probe"
               [] OTHER -> "done"
    /\ copyInFlight' = (Cat = "woff2")
    /\ escaped' = escaped

\* line 66: await fs.mkdir(cacheDir, {recursive}), outside the try of optimise
MkdirCache ==
    /\ pc = "mkcache"
    /\ \E ok \in BOOLEAN :
          IF ok
          THEN /\ Dispatch
               /\ faults' = faults
          ELSE /\ handleFileChangeCatch
               /\ faults' = faults \cup {"mkcache"}
               /\ pc' = "done"
               /\ UNCHANGED << outputFilePath, copyInFlight >>
    /\ UNCHANGED << filePath, ext, beforeSize, afterSize, imageVars, encoders,
                    ffmpegCommand, wrote, listed, fsVars, dispVars >>

\* where a rejection of step lands: the inner catch of the image branch
\* (lines 118-120), the outer catch (lines 202-205) for svg, audio and video,
\* the two .catch handlers of the ttf branch (lines 187-192)
Rejected(step) ==
    /\ faults' = faults \cup {step}
    /\ CASE Cat = "image" ->
              /\ log' = Append(log, Entry("errProcessingInner"))
              /\ pc' = "done"
         [] Cat = "ttf" ->
              /\ log' = Append(log, Entry(IF step \in {"read", "transform"}
                                          THEN "unableRead" ELSE "unableWrite"))
              /\ pc' = "done"
         [] OTHER ->
              /\ log' = log
              /\ pc' = "cleanup"

\* lines 88-96: await sharp(filePath).metadata(), then the resize decision
Metadata ==
    /\ pc = "metadata"
    /\ \/ \E alpha \in BOOLEAN, w \in Dimensions, h \in Dimensions :
             /\ hasAlpha' = alpha
             /\ metadata' = [width |-> w, height |-> h]
             /\ resizeOptions' = resizeOptionsFor(w, h)
             /\ pc' = IF alpha THEN "rawbuf" ELSE "write"
             /\ UNCHANGED << log, faults >>
       \/ /\ Rejected("metadata")
          /\ UNCHANGED imageVars
    /\ UNCHANGED << filePath, ext, outputFilePath, beforeSize, afterSize, encoders,
                    ffmpegCommand, copyInFlight, escaped, wrote, listed, fsVars, dispVars >>

\* line 102: await pipeline.raw().toBuffer(...)
RawBuffer ==
    /\ pc = "rawbuf"
    /\ \/ pc' = "write" /\ UNCHANGED << log, faults >>
       \/ Rejected("rawbuf")
    /\ UNCHANGED << filePath, ext, outputFilePath, beforeSize, afterSize, imageVars,
                    encoders, ffmpegCommand, copyInFlight, escaped, wrote, listed,
                    fsVars, dispVars >>

\* lines 126-130, 182-183: await fs.readFile, then the in-process transform
\* (svgo's optimize, ttf2woff2) in the same turn
ReadInput ==
    /\ pc = "read"
    /\ \/ pc' = "write" /\ UNCHANGED << log, faults >>
       \/ Rejected("read")
       \/ Rejected("transform")
    /\ UNCHANGED << filePath, ext, outputFilePath, beforeSize, afterSize, imageVars,
                    encoders, ffmpegCommand, copyInFlight, escaped, wrote, listed,
                    fsVars, dispVars >>

\* lines 154-169: await execAsync('ffmpeg -encoders'), then the command choice
ProbeEncoders ==
    /\ pc = "probe"
    /\ \/ \E keep \in SUBSET (1..Len(EncoderLines)) :
             /\ listed' = { EncoderLines[i] : i \in keep }
             /\ encoders' = Listing(keep, 1)
             /\ ffmpegCommand' = selectEncoder(Listing(keep, 1))
             /\ pc' = "write"
             /\ UNCHANGED << log, faults >>
       \/ /\ Rejected("probe")
          /\ UNCHANGED << encoders, ffmpegCommand, listed >>
    /\ UNCHANGED << filePath, ext, outputFilePath, beforeSize, afterSize, imageVars,
                    copyInFlight, escaped, wrote, fsVars, dispVars >>

\* lines 110/112, 131, 143, 171, 183: the await that writes the output file
\* (toFile, writeFile, the ffmpeg encode).  It resolves only into an existing
\* directory; a rejected write may leave a partial file behind.
WriteOutput ==
    /\ pc = "write"
    /\ \/ /\ outputDirOf(writeTarget) \in outDirs
          /\ outFiles' = outFiles \cup {writeTarget}
          /\ wrote' = "full"
          /\ pc' = "statBefore"
          /\ UNCHANGED << log, faults >>
       \/ /\ Rejected(IF Cat \in {"audio", "video"} THEN "encoder" ELSE "write")
          /\ \E partial \in BOOLEAN :
                IF partial /\ outputDirOf(writeTarget) \in outDirs
                THEN outFiles' = outFiles \cup {writeTarget} /\ wrote' = "partial"
                ELSE outFiles' = outFiles /\ wrote' = wrote
    /\ UNCHANGED << filePath, ext, outputFilePath, beforeSize, afterSize, imageVars,
                    encoders, ffmpegCommand, copyInFlight, escaped, outDirs,
                    listed, dispVars >>

\* lines 115, 132, 144, 172, 184: beforeSize = (await fs.stat(filePath)).size
StatInput ==
    /\ pc = "statBefore"
    /\ \/ \E n \in 1..MaxSize :
             /\ beforeSize' = <<n>>
             /\ pc' = "statAfter"
             /\ UNCHANGED << log, faults >>
       \/ /\ Rejected("stat")
          /\ beforeSize' = beforeSize
    /\ UNCHANGED << filePath, ext, outputFilePath, afterSize, imageVars, encoders,
                    ffmpegCommand, copyInFlight, escaped, wrote, listed, fsVars, dispVars >>

\* lines 116-117, 133-134, 145-146, 173-174, 185-186: afterSize = (await
\* fs.stat(output)).size, then the "Optimised" line with getDif()
StatOutput ==
    /\ pc = "statAfter"
    /\ \/ \E n \in 0..MaxSize :
             /\ afterSize' = <<n>>
             /\ log' = Append(log, Optimised(beforeSize, <<n>>))
             /\ pc' = "done"
             /\ faults' = faults
       \/ /\ Rejected("stat")
          /\ afterSize' = afterSize
    /\ UNCHANGED << filePath, ext, outputFilePath, beforeSize, imageVars, encoders,
                    ffmpegCommand, copyInFlight, escaped, wrote, listed, fsVars, dispVars >>

\* the path the outer catch unlinks
cleanupPath == outputFilePath

\* lines 202-205: await fs.unlink(outputFilePath).catch(() => {}), then the
\* error line
Cleanup ==
    /\ pc = "cleanup"
    /\ \E ok \in BOOLEAN :
          outFiles' = IF ok THEN outFiles \ {cleanupPath} ELSE outFiles
    /\ log' = Append(log, Entry("errProcessingOuter"))
    /\ pc' = "done"
    /\ UNCHANGED << filePath, ext, outputFilePath, beforeSize, afterSize, imageVars,
                    encoders, ffmpegCommand, copyInFlight, escaped, faults, wrote,
                    listed, outDirs, dispVars >>

\* lines 195-199: the fs.copyFile that optimise does not await settles
CopySettle ==
    /\ copyInFlight
    /\ copyInFlight' = FALSE
    /\ \/ /\ outputDirOf(writeTarget) \in outDirs
          /\ outFiles' = outFiles \cup {writeTarget}
          /\ wrote' = "full"
          /\ log' = Append(log, Entry("copied"))
          /\ faults' = faults
       \/ /\ \E partial \in BOOLEAN :
                IF partial /\ outputDirOf(writeTarget) \in outDirs
                THEN outFiles' = outFiles \cup {writeTarget} /\ wrote' = "partial"
                ELSE outFiles' = outFiles /\ wrote' = wrote
          /\ log' = Append(log, Entry("unableCopy"))
          /\ faults' = faults \cup {"copy"}
    /\ UNCHANGED << filePath, ext, pc, outputFilePath, beforeSize, afterSize,
                    imageVars, encoders, ffmpegCommand, escaped, outDirs, listed,
                    dispVars >>

Next ==
    \/ HandleFileChange
    \/ MkdirOutput
    \/ UnlinkStale
    \/ MkdirCache
    \/ Metadata
    \/ RawBuffer
    \/ ReadInput
    \/ ProbeEncoders
    \/ WriteOutput
    \/ StatInput
    \/ StatOutput
    \/ Cleanup
    \/ CopySettle

Spec == Init /\ [][Next]_vars


(***************************************************************************)
(* The dispatcher (lines 20-45, 56-58).  Here a handleFileChange call is   *)
(* followed from its start to its completion only: what it does in between *)
(* is the subject of Spec.                                                 *)
(***************************************************************************)
\* the most entries readdir returns
MaxTree == 2
\* the most filesystem changes the watcher sees once Live
MaxLive == 1

TreeEntries == { RelTtf, RelWoff2, RelMp3, RelWav, RelSvg, RelTxt, RelDir, RelUpper }

\* the readdir results: up to MaxTree distinct entries, in any order
Trees ==
    UNION { { t \in [1..n -> TreeEntries] :
                \A i, j \in 1..n : i # j => t[i] # t[j] } : n \in 0..MaxTree }

LivePaths == { Abs(RelIcon), Abs(RelTxt), Abs(RelSvg), Abs(RelWoff2) }

\* the output tree the process starts on: empty, or the outputs an earlier
\* run of the process left for the paths it watches
LiveTargets == { targetPath(p) : p \in LivePaths }
LiveDirs    == UNION { Ancestors(outputDirOf(t)) : t \in LiveTargets }

InitDispatch ==
    /\ InitJob
    /\ \/ outFiles = {} /\ outDirs = {}
       \/ outFiles = LiveTargets /\ outDirs = LiveDirs
    /\ tree \in Trees
    /\ readdirDone = FALSE /\ handlersAttached = FALSE
    /\ jobs = <<>> /\ liveEvents = 0 /\ suppressed = {}
    /\ deleted = {} /\ watcherErrors = 0 /\ crashed = FALSE

Job(path, origin, index) ==
    [ path |-> path, origin |-> origin, index |-> index, running |-> TRUE,
      target |-> targetPath(path) ]

\* the calls the forEach of lines 31-37 starts over entries i..Len(files), in
\* order: one for each entry the test of line 33 accepts
RECURSIVE backfillJobs(_, _)
backfillJobs(files, i) ==
    IF i > Len(files) THEN <<>>
    ELSE (IF BackfillMatches(files[i])
          THEN << Job(Abs(files[i]), "backfill", i) >> ELSE <<>>)
         \o backfillJobs(files, i + 1)

\* lines 29-37: readdir resolves and the forEach runs every callback to its
\* first await, starting all the backfill calls in one turn
ReaddirResolved ==
    /\ ~crashed /\ ~readdirDone
    /\ readdirDone' = TRUE
    /\ jobs' = backfillJobs(tree, 1)
    /\ UNCHANGED << tree, handlersAttached, liveEvents, suppressed, watchVars,
                    jobVars, fsVars >>

\* line 35: what lets the promise of line 30 resolve when a call returns
resolves(job) == job.index = Len(tree)

\* lines 34-35, 38-44: a backfill call returns; the callback of the last
\* array index resolves the promise, and the .then attaches the handlers
BackfillJobReturns ==
    /\ ~crashed
    /\ \E k \in DOMAIN jobs :
          /\ jobs[k].origin = "backfill" /\ jobs[k].running
          /\ jobs' = [jobs EXCEPT ![k].running = FALSE]
          /\ handlersAttached' = (handlersAttached \/ resolves(jobs[k]))
    /\ UNCHANGED << tree, readdirDone, liveEvents, suppressed, watchVars, jobVars,
                    fsVars >>

\* a call started by a live handler returns
LiveJobReturns ==
    /\ ~crashed
    /\ \E k \in DOMAIN jobs :
          /\ jobs[k].origin # "backfill" /\ jobs[k].running
          /\ jobs' = [jobs EXCEPT ![k].running = FALSE]
    /\ UNCHANGED << tree, readdirDone, handlersAttached, liveEvents, suppressed,
                    watchVars, jobVars, fsVars >>

\* what chokidar does with a path: emits its events unless `ignored` holds
delivers(p) == ~ignored(p)

\* lines 20-26, 40-41: a file is added or changed while Live; the watcher
\* suppresses it or emits the event, whose handler is handleFileChange
FileAddedOrChanged ==
    /\ ~crashed /\ handlersAttached /\ liveEvents < MaxLive
    /\ liveEvents' = liveEvents + 1
    /\ \E p \in LivePaths, kind \in {"add", "change"} :
          IF delivers(p)
          THEN /\ jobs' = Append(jobs, Job(p, kind, 0))
               /\ suppressed' = suppressed
          ELSE /\ suppressed' = suppressed \cup {p}
               /\ jobs' = jobs
    /\ UNCHANGED << tree, readdirDone, handlersAttached, watchVars, jobVars, fsVars >>

\* a deletion handler that also removes the mirrored output of the path
handleFileDeletionPrunes(p) ==
    /\ log' = Append(log, Entry("removed"))
    /\ deleted' = deleted \cup {p}
    /\ outFiles' = outFiles \ {targetPath(p)}
    /\ outDirs' = outDirs

\* lines 56-58: handleFileDeletion prints one line and does nothing else
handleFileDeletion(p) ==
    /\ log' = Append(log, Entry("removed"))
    /\ deleted' = deleted \cup {p}
    /\ UNCHANGED << outFiles, outDirs >>

\* line 42: a file is removed while Live; the watcher suppresses it or emits
\* 'unlink', whose handler is handleFileDeletion
FileUnlinked ==
    /\ ~crashed /\ handlersAttached /\ liveEvents < MaxLive
    /\ liveEvents' = liveEvents + 1
    /\ \E p \in LivePaths :
          IF delivers(p)
          THEN /\ handleFileDeletion(p)
               /\ suppressed' = suppressed
          ELSE /\ suppressed' = suppressed \cup {p}
               /\ UNCHANGED << log, deleted, outFiles, outDirs >>
    /\ UNCHANGED << tree, readdirDone, handlersAttached, jobs, filePath, ext, pc,
                    outputFilePath, beforeSize, afterSize, imageVars, encoders,
                    ffmpegCommand, copyInFlight, escaped, faults, wrote, listed,
                    watcherErrors, crashed >>

\* the most 'error' events the watcher emits
MaxErrors == 1

\* lines 20, 43: the watcher, created at line 20, emits 'error'.  Once the
\* .then of line 38 has attached the listener of line 43 the error is printed;
\* before that the emitter has no 'error' listener, the emit throws and the
\* process ends
WatcherError ==
    /\ ~crashed /\ watcherErrors < MaxErrors
    /\ watcherErrors' = watcherErrors + 1
    /\ IF handlersAttached
       THEN /\ log' = Append(log, Entry("watcherError"))
            /\ crashed' = crashed
       ELSE /\ crashed' = TRUE
            /\ log' = log
    /\ UNCHANGED << tree, readdirDone, handlersAttached, jobs, liveEvents, suppressed,
                    deleted, filePath, ext, pc, outputFilePath, beforeSize, afterSize,
                    imageVars, encoders, ffmpegCommand, copyInFlight, escaped, faults,
                    wrote, listed, fsVars >>

NextDispatch ==
    \/ ReaddirResolved
    \/ BackfillJobReturns
    \/ LiveJobReturns
    \/ FileAddedOrChanged
    \/ FileUnlinked
    \/ WatcherError

SpecDispatch == InitDispatch /\ [][NextDispatch]_vars

(***************************************************************************)
(* Properties of one call.                                                 *)
(***************************************************************************)
Finished == pc = "done" /\ ~copyInFlight

ErrorKinds == { "errOptimizing", "errProcessingInner", "errProcessingOuter",
                "unableRead", "unableWrite", "unableCopy" }
ErrorLogged == \E i \in DOMAIN log : log[i].kind \in ErrorKinds

\* C1: a raster, SVG, audio, video or TrueType job that failed at the encoder,
\* the write or a size lookup, after its write had put a file (whole or
\* partial) at the target, returns with no file at the target path
C1_NoPartialOutputLeft ==
    ( /\ Finished
      /\ Cat \in {"image", "svg", "audio", "video", "ttf"}
      /\ faults \cap {"encoder", "write", "stat"} # {}
      /\ wrote # "no" )
    => writeTarget \notin outFiles

\* the mapped path the claim describes: the output root in place of the input
\* root, the directory segments kept, the final extension (as it is spelt in
\* the input) removed
MirrorWithoutExtension(p) ==
    LET rel == substringFrom(p, Len(watchDir))
    IN  SubSeq(cwd \o publicName \o rel, 1,
               Len(cwd \o publicName \o rel) - Len(extname(p)))

\* C6: the mapped output path is the mirror of the input path without the
\* input's final extension, whatever the letter case of that extension
C6_MappedPathDropsExtension ==
    pc \in {"mkdir", "unlink", "mkcache"}
    => outputFilePath = MirrorWithoutExtension(filePath)

\* C7: the video strategist picks av1_nvenc > av1_qsv > av1_amf > libaom-av1:
\* the highest-priority encoder the probe listed, the software encoder
\* exactly when no hardware encoder is listed
C7_EncoderPriority ==
    (Cat = "video" /\ ffmpegCommand # <<>>)
    => /\ av1_nvenc \in listed => ffmpegCommand = av1_nvenc
       /\ (av1_nvenc \notin listed /\ av1_qsv \in listed)
             => ffmpegCommand = av1_qsv
       /\ (av1_nvenc \notin listed /\ av1_qsv \notin listed /\ av1_amf \in listed)
             => ffmpegCommand = av1_amf
       /\ ffmpegCommand = libaom_av1
             <=> listed \cap {av1_nvenc, av1_qsv, av1_amf} = {}

\* a video job whose probe listed vendors B and C but not A, and chose vendor B
C7_Witness ==
    /\ Cat = "video" /\ pc = "write"
    /\ av1_qsv \in listed /\ av1_amf \in listed /\ av1_nvenc \notin listed
    /\ ffmpegCommand = av1_qsv

\* C8: every report printed with both sizes known is a numeric percentage,
\* worded "reduced" when the output is smaller, "gained" when it is larger and
\* with no word when the sizes are equal; never the unavailable marker
C8_KnownSizesRenderNumeric ==
    \A i \in DOMAIN log :
        (log[i].kind = "optimised" /\ log[i].before # <<>> /\ log[i].after # <<>>)
        => LET b == log[i].before[1]
               a == log[i].after[1]
               d == log[i].dif[1]
           IN  /\ ~d.marker
               /\ a < b => d.word = "reduced"
               /\ a > b => d.word = "gained"
               /\ a = b => d.word = ""

\* C9: a call whose write resolved and whose size lookup rejected still prints
\* its report, with the unavailable marker, logs no error and keeps the output
C9_StatFailureDegradesReport ==
    (Finished /\ wrote = "full" /\ "stat" \in faults)
    => /\ \E i \in DOMAIN log :
             log[i].kind = "optimised" /\ log[i].dif[1].marker
       /\ ~ErrorLogged
       /\ writeTarget \in outFiles

\* the failing steps the claim lists
ListedSteps == { "mkdir", "mkcache", "metadata", "rawbuf", "probe", "encoder",
                 "read", "transform", "write", "copy", "stat" }

KnownCategory(p) == Category(toLowerCase(extname(p))) # "none"

\* C2: while a live handler is attached, no handleFileChange call started by
\* the backfill pass is still in progress
C2_LiveOnlyAfterBackfill ==
    handlersAttached
    => \A k \in DOMAIN jobs : jobs[k].origin = "backfill" => ~jobs[k].running

\* C3: once the backfill pass has run over the tree, exactly one call has been
\* started for every entry whose extension is in one of the five categories
C3_BackfillCoversEveryMatch ==
    readdirDone
    => \A i \in DOMAIN tree :
          KnownCategory(tree[i])
          => Cardinality({ k \in DOMAIN jobs :
                             jobs[k].origin = "backfill" /\ jobs[k].index = i }) = 1

\* C4: in Live mode no path of a known category is suppressed by the ignore
\* predicate, and no path outside the categories reaches handleFileChange
C4_OnlyKnownDelivered ==
    /\ \A p \in suppressed : ~KnownCategory(p)
    /\ \A k \in DOMAIN jobs :
          jobs[k].origin # "backfill" => KnownCategory(jobs[k].path)

\* C5: two calls in progress at the same time on different input files write
\* different output paths
C5_DistinctOutputPaths ==
    \A j, k \in DOMAIN jobs :
        (jobs[j].running /\ jobs[k].running /\ jobs[j].path # jobs[k].path)
        => jobs[j].target # jobs[k].target


(***************************************************************************)
(* Properties of the raster strategist.                                    *)
(***************************************************************************)
\* the number of path segments of p below the directory root
SegmentsBelow(root, p) ==
    Cardinality({ i \in (Len(root) + 1)..Len(p) : p[i] = sep })

\* the image branch has appended its format to outputFilePath
FormatChosen == Cat = "image" /\ pc \in {"metadata", "rawbuf", "write",
                                        "statBefore", "statAfter"}

Probed == Cat = "image" /\ pc \in {"rawbuf", "write", "statBefore", "statAfter"}

\* C12: with both dimensions known, an image with a dimension above 1440 is
\* resized by its larger dimension to 1440, so that neither resulting
\* dimension exceeds 1440 (a square image included); an image within 1440 by
\* 1440 gets no resize
C12_ResizeWithinCeiling ==
    (Probed /\ metadata.width # 0 /\ metadata.height # 0)
    => LET w == metadata.width
           h == metadata.height
           r == resized(w, h, resizeOptions)
       IN  IF w > 1440 \/ h > 1440
           THEN /\ resizeOptions.px = 1440
                /\ w > h => resizeOptions.dim = "width"
                /\ h > w => resizeOptions.dim = "height"
                /\ w = h => resizeOptions.dim \in {"width", "height"}
                /\ r.width <= 1440 /\ r.height <= 1440
           ELSE resizeOptions = noResize

\* a taller-than-wide image above the ceiling, resized by its height
C12_Witness ==
    /\ Probed /\ metadata.width = 1441 /\ metadata.height = 2880
    /\ resizeOptions = [dim |-> "height", px |-> 1440]


(***************************************************************************)
(* Properties of the steps ahead of the strategist.                        *)
(***************************************************************************)
\* a strategist's write of the output is about to happen
AboutToWrite == pc = "write" \/ copyInFlight

\* C13: when a strategist is about to write, no stale file is at the exact
\* path it will write, unless the removal itself rejected for another reason
\* than the file not existing
C13_StaleTargetRemoved ==
    (AboutToWrite /\ "unlink" \notin faults) => writeTarget \notin outFiles

\* the strategist states of a call, and its un-awaited copy
InStrategist ==
    \/ pc \in {"metadata", "rawbuf", "read", "probe", "write", "statBefore",
               "statAfter", "cleanup"}
    \/ copyInFlight
    \/ wrote # "no"

\* C14: when the creation of the output directory rejects and the directory
\* does not exist, the call is aborted: no strategist runs for it, and it
\* finishes with an error logged
C14_MkdirFailureAborts ==
    ("mkdir" \in faults /\ outputDirOf(writeTarget) \notin outDirs)
    => /\ ~InStrategist
       /\ pc = "done" => ErrorLogged

\* C15: a finished TrueType call has logged the read-failure message exactly
\* when reading the input rejected, and the write-failure message exactly
\* when writing the output rejected
C15_FontFailuresPerStage ==
    (Cat = "ttf" /\ Finished)
    => /\ (\E i \in DOMAIN log : log[i].kind = "unableRead") <=> "read" \in faults
       /\ (\E i \in DOMAIN log : log[i].kind = "unableWrite") <=> "write" \in faults

\* C19: once the call has returned, none of its writes to the output tree is
\* still in flight
C19_NoWriteAfterReturn == pc = "done" => ~copyInFlight

\* C20: no step of a call for a path outside the handled categories changes
\* the output tree
C20_UncategorisedLeavesTree ==
    [][ (pc # "idle" /\ Cat = "none") => UNCHANGED << outFiles, outDirs >> ]_vars


(***************************************************************************)
(* Properties of the watcher's handlers.                                   *)
(***************************************************************************)
\* C16: in every state, a watcher error that has been emitted was logged and
\* the process is still running
C16_WatcherErrorLogged ==
    watcherErrors > 0
    => /\ ~crashed
       /\ \E i \in DOMAIN log : log[i].kind = "watcherError"

\* C17: a step that handles a delete event leaves the output tree, the
\* mirrored output of the deleted input included, as it was
C17_DeletionLeavesOutputTree ==
    [][ deleted' # deleted => UNCHANGED << outFiles, outDirs >> ]_vars

C17_Witness ==
    \E p \in deleted :
       /\ targetPath(p) \in outFiles
       /\ \E i \in DOMAIN log : log[i].kind = "removed"

\* every backfill call the forEach started has returned
BackfillTerminated ==
    /\ readdirDone
    /\ \A k \in DOMAIN jobs : jobs[k].origin = "backfill" => ~jobs[k].running

\* C18: whatever readdir returned, once all started backfill calls have
\* returned the handlers are attached
C18_LiveOnceBackfillTerminated == BackfillTerminated => handlersAttached

====
